---- MODULE Spec2Model ----
(***************************************************************************)
(* Model of the chat page of src/app/page.tsx: the turn driven by          *)
(* handleSend (search, parallel page reads, context assembly, inference),  *)
(* the upload path handleUpload, and the pure helpers chunkText and        *)
(* rankChunksByQuery.                                                      *)
(*                                                                         *)
(* A text is a sequence of strings; texts the code inspects character by   *)
(* character are sequences of one-character strings, fixed literals are a  *)
(* sequence holding the literal as one fragment.  An async handler is cut  *)
(* at its awaits: each action is one synchronous segment, and the React    *)
(* state updates a segment queues are committed at its end (React flushes  *)
(* them before the next event or continuation runs).  Values a handler     *)
(* reads from its render closure (messages, sources) are kept in           *)
(* closMessages and closSources.                                           *)
(***************************************************************************)
EXTENDS Integers, Sequences, FiniteSets, TLC

\* ---------------------------------------------------------------- bounds
MaxTurns == 2
MaxUploads == 1
MaxResults == 4
MaxReads == 3
MaxTextLen == 4
MaxChunkSize == 3
MaxChunks == 6
MaxRankLen == 3
MaxRankChunks == 2
MaxK == 3

\* ------------------------------------------------------ program constants
TopN == 3
DefaultChunkSize == 1600
DefaultOverlap == 200
TopK == 5
BodyCap == 8000

\* ------------------------------------------------------------ text helpers
Min(a, b) == IF a < b THEN a ELSE b

\* String.prototype.slice(a, b) for 0 <= a <= b
Slice(s, a, b) == SubSeq(s, a + 1, Min(b, Len(s)))

Whitespace == {" ", "\n", "\t"}

RECURSIVE TrimStart(_)
TrimStart(s) ==
  IF s # <<>> /\ Head(s) \in Whitespace THEN TrimStart(Tail(s)) ELSE s

RECURSIVE TrimEnd(_)
TrimEnd(s) ==
  IF s # <<>> /\ s[Len(s)] \in Whitespace THEN TrimEnd(SubSeq(s, 1, Len(s) - 1)) ELSE s

trim(s) == TrimEnd(TrimStart(s))

LowerMap == [A |-> "a", B |-> "b", C |-> "c"]

toLowerCase(s) == [i \in 1..Len(s) |-> IF s[i] \in DOMAIN LowerMap THEN LowerMap[s[i]] ELSE s[i]]

AlphaNum == {"a", "b", "c", "d", "e", "f", "g", "h", "i", "j", "k", "l", "m",
             "n", "o", "p", "q", "r", "s", "t", "u", "v", "w", "x", "y", "z",
             "0", "1", "2", "3", "4", "5", "6", "7", "8", "9"}

\* s.split(/[^a-z0-9]+/).filter(Boolean): the maximal runs of [a-z0-9]
RECURSIVE SplitTerms(_, _)
SplitTerms(s, cur) ==
  IF s = <<>> THEN (IF cur = <<>> THEN <<>> ELSE <<cur>>)
  ELSE IF Head(s) \in AlphaNum THEN SplitTerms(Tail(s), Append(cur, Head(s)))
  ELSE (IF cur = <<>> THEN <<>> ELSE <<cur>>) \o SplitTerms(Tail(s), <<>>)

\* a count that resumes one character after the start of a match
RECURSIVE SplitCount_Overlapping(_, _, _)
SplitCount_Overlapping(lc, t, p) ==
  IF p + Len(t) - 1 > Len(lc) THEN 0
  ELSE IF SubSeq(lc, p, p + Len(t) - 1) = t THEN 1 + SplitCount_Overlapping(lc, t, p + 1)
  ELSE SplitCount_Overlapping(lc, t, p + 1)

\* lc.split(t).length - 1 for a non-empty t: matches taken left to right,
\* the scan resuming after each match
RECURSIVE SplitCount(_, _, _)
SplitCount(lc, t, p) ==
  IF p + Len(t) - 1 > Len(lc) THEN 0
  ELSE IF SubSeq(lc, p, p + Len(t) - 1) = t THEN 1 + SplitCount(lc, t, p + Len(t))
  ELSE SplitCount(lc, t, p + 1)

RECURSIVE Join(_, _)
Join(parts, sep) ==
  IF parts = <<>> THEN <<>>
  ELSE IF Len(parts) = 1 THEN parts[1]
  ELSE parts[1] \o sep \o Join(Tail(parts), sep)

\* a || b on strings
OrElse(a, b) == IF a # <<>> THEN a ELSE b

\* ------------------------------------------------------------- chunkText
RECURSIVE ChunkFrom(_, _, _, _)
ChunkFrom(text, i, chunkSize, overlap) ==
  IF i < Len(text)
  THEN <<Slice(text, i, i + chunkSize)>> \o ChunkFrom(text, i + chunkSize - overlap, chunkSize, overlap)
  ELSE <<>>

chunkText(text, chunkSize, overlap) == ChunkFrom(text, 0, chunkSize, overlap)

\* ----------------------------------------------------- rankChunksByQuery
QueryTerms(query) == SplitTerms(toLowerCase(query), <<>>)

RECURSIVE SumOccurrences(_, _)
SumOccurrences(lc, terms) ==
  IF terms = <<>> THEN 0
  ELSE SplitCount(lc, Head(terms), 1) + SumOccurrences(lc, Tail(terms))

ChunkScore(c, query) == SumOccurrences(toLowerCase(c), QueryTerms(query))

\* an insertion that puts an element before its equals
RECURSIVE InsertDesc_Unstable(_, _)
InsertDesc_Unstable(sorted, x) ==
  IF sorted = <<>> THEN <<x>>
  ELSE IF Head(sorted).score > x.score THEN <<Head(sorted)>> \o InsertDesc_Unstable(Tail(sorted), x)
  ELSE <<x>> \o sorted

\* Array.prototype.sort with (a, b) => b.score - a.score: stable, descending
RECURSIVE InsertDesc(_, _)
InsertDesc(sorted, x) ==
  IF sorted = <<>> THEN <<x>>
  ELSE IF Head(sorted).score >= x.score THEN <<Head(sorted)>> \o InsertDesc(Tail(sorted), x)
  ELSE <<x>> \o sorted

RECURSIVE SortDesc(_)
SortDesc(scored) ==
  IF scored = <<>> THEN <<>>
  ELSE InsertDesc(SortDesc(SubSeq(scored, 1, Len(scored) - 1)), scored[Len(scored)])

rankChunksByQuery(chunks, query, k) ==
  LET scored == [idx \in 1..Len(chunks) |-> [idx |-> idx, score |-> ChunkScore(chunks[idx], query)]]
      best == Slice(SortDesc(scored), 0, k)
  IN [j \in 1..Len(best) |-> chunks[best[j].idx]]

\* ------------------------------------------------------------ the page
VARIABLES
  messages,      \* useState<ChatMessage[]>: the conversation history
  busy,          \* useState: the busy flag
  autoBrowse,    \* useState: the Auto Browse checkbox
  sources,       \* useState<Source[]>: the provenance list
  status,        \* useState: the status line
  engine,        \* engineRef.current: "none" (null), "chat" or "generate"
  loadState,     \* the model-loading effect: "loading", "ready", "failed"
  pc,            \* where handleSend stands: "Idle", "Searching", "Fetching",
                 \* "Inferring", or "Dead" after an uncaught rejection
  turn,          \* the frame of the running handleSend call (NoTurn when none):
                 \*   content       the trimmed input
                 \*   autoBrowse    autoBrowse of the render the call closed over
                 \*   closMessages  messages of the render the call closed over
                 \*   closSources   sources of the render the call closed over
                 \*   search        the searchWeb call: "none", "pending", or
                 \*                 the kind of response it settled with
                 \*   top           results.slice(0, 3)
                 \*   reads         the values Promise.all holds, by index in top
                 \*   pending       the indexes of top whose read has not settled
                 \*   outOfOrder    a read settled before an earlier one
                 \*   ctxPieces     the per-turn sources
                 \*   prompt        the prompt text
                 \*   call          the arguments of the inference call
  outcome,       \* the last finished turn: how its inference went ("success",
                 \* "threw", "notready"), how many web sources it had gathered
                 \* and whether it had built the PDF excerpt source
  turns,         \* number of turns started
  sendResult,    \* what the last handleSend call did: "rejected" or "started"
  uploads,       \* in-flight handleUpload calls: the number of files of each
  uploadCalls,   \* number of handleUpload calls made
  readsIssued,   \* number of page reads issued so far
  fn             \* the frame of a chunkText or rankChunksByQuery call run on its
                 \* own (NoFn while the page runs)

vars == <<messages, busy, autoBrowse, sources, status, engine, loadState, pc,
          turn, outcome, turns, sendResult, uploads, uploadCalls, readsIssued, fn>>

\* the state of the page
pageVars == <<messages, busy, autoBrowse, sources, status, engine, loadState, pc,
              turn, outcome, turns, sendResult, uploads, uploadCalls, readsIssued>>

\* ------------------------------------------------- what collaborators send
NoUrl == <<>>

\* what the text box holds when handleSend is called
Inputs == {<<" ">>, <<" ", "a", " ">>}

\* the search provider's ordered results; the second has no title
AllResults ==
  [i \in 1..MaxResults |->
     [title |-> IF i = 2 THEN <<>> ELSE <<"T", ToString(i)>>,
      url |-> <<"u", ToString(i)>>,
      snippet |-> <<>>]]

\* responses of GET /api/search as the browser's fetch delivers them
SearchResponses ==
  {[kind |-> k, results |-> <<>>] : k \in {"neterr", "notok", "badjson"}}
  \cup {[kind |-> "ok", results |-> SubSeq(AllResults, 1, n)] : n \in 0..MaxResults}

\* responses of POST /api/fetch: the route answers 200 with {title, text},
\* and 200 with {title: "", text: ""} when its own read of the page threw
\* (url is the page asked for: a page's text is its own)
PageResponses(url) ==
  {[kind |-> k, title |-> <<>>, text |-> <<>>] : k \in {"neterr", "notok", "badjson"}}
  \cup {[kind |-> "ok", title |-> <<"P">>, text |-> <<"a", " ">> \o url],
        [kind |-> "ok", title |-> <<>>, text |-> <<>>]}

\* responses of POST /api/pdf-parse
PdfResponses ==
  {[kind |-> k, name |-> <<>>, text |-> <<>>] : k \in {"neterr", "notok"}}
  \cup {[kind |-> "ok", name |-> <<"doc.pdf">>, text |-> <<"a", "b", "a">>]}

\* what the inference engine does with a call
InferenceResults == {[kind |-> "throws", text |-> <<>>],
                     [kind |-> "ok", text |-> <<"answer">>],
                     [kind |-> "ok", text |-> <<>>]}

\* a slot of the array Promise.all fills: st is "pending", "rejected", "null"
\* (the mapper returned null) or "source" (it returned a Source)
Slot(st) == [st |-> st, title |-> <<>>, url |-> <<>>, text |-> <<>>]

\* ---------------------------------------------- searchWeb, fetchPage, parsePdf
\* searchWeb has no try/catch: a rejected fetch or an unreadable body rejects
searchWeb(resp) ==
  IF resp.kind \in {"neterr", "badjson"} THEN [st |-> "rejected", results |-> <<>>]
  ELSE IF resp.kind = "notok" THEN [st |-> "ok", results |-> <<>>]
  ELSE [st |-> "ok", results |-> resp.results]

\* fetchPage: the catch covers the awaited fetch; `return res.json()` is not
\* awaited inside the try, so an unreadable body rejects the returned promise
fetchPage(resp) ==
  IF resp.kind \in {"neterr", "notok"} THEN [st |-> "null", title |-> <<>>, text |-> <<>>]
  ELSE IF resp.kind = "badjson" THEN [st |-> "rejected", title |-> <<>>, text |-> <<>>]
  ELSE [st |-> "page", title |-> resp.title, text |-> resp.text]

parsePdf(resp) ==
  IF resp.kind = "neterr" THEN [st |-> "rejected", name |-> <<>>, text |-> <<>>]
  ELSE IF resp.kind = "notok" THEN [st |-> "null", name |-> <<>>, text |-> <<>>]
  ELSE [st |-> "value", name |-> resp.name, text |-> resp.text]

\* ------------------------------------------------------- handleSend, pieces
\* the guard without its busy test
SendAccepted_NoBusyTest(c, b) == c # <<>>

\* if (!content || busy) return;
SendAccepted(c, b) == c # <<>> /\ ~b

IsWeb(s) == s.type = "web"
IsPdf(s) == s.type = "pdf"

\* the mapper of top.map(...): what the promise of one search result settles to
PageSource(r, resp) ==
  LET page == fetchPage(resp)
  IN IF page.st = "rejected" THEN Slot("rejected")
     ELSE IF page.st = "null" THEN Slot("null")
     ELSE [st |-> "source", title |-> OrElse(page.title, OrElse(r.title, r.url)),
           url |-> r.url, text |-> page.text]

\* a join that collects the values as they arrive
PromiseAllStore_Push(rds, i, v) ==
  LET k == CHOOSE k \in 1..Len(rds) :
             rds[k].st = "pending" /\ \A m \in 1..(k - 1) : rds[m].st # "pending"
  IN [rds EXCEPT ![k] = v]

\* Promise.all keeps the value of the i-th promise at index i
PromiseAllStore(rds, i, v) == [rds EXCEPT ![i] = v]

\* fetched.filter(Boolean) as Source[]
RECURSIVE FilterBoolean(_)
FilterBoolean(rds) ==
  IF rds = <<>> THEN <<>>
  ELSE (IF Head(rds).st = "source"
        THEN <<[type |-> "web", title |-> Head(rds).title, url |-> Head(rds).url,
                text |-> Head(rds).text]>>
        ELSE <<>>) \o FilterBoolean(Tail(rds))

\* the excerpt source pushed whether or not a PDF is held
PdfPieces_Always(closSrc, c) ==
  <<[type |-> "pdf", title |-> <<"Relevant PDF excerpts">>, url |-> NoUrl, text |-> <<>>]>>

ExcerptSep == <<"\n", "\n", "-", "-", "-", "\n", "\n">>

\* the synthetic source built from the uploaded PDFs the call closed over
PdfPieces(closSrc, c) ==
  LET pdfs == SelectSeq(closSrc, IsPdf)
      pdfText == Join([i \in 1..Len(pdfs) |-> pdfs[i].text], <<"\n", "\n">>)
      chunks == chunkText(pdfText, DefaultChunkSize, DefaultOverlap)
      topChunks == rankChunksByQuery(chunks, c, TopK)
  IN IF Len(pdfs) > 0
     THEN <<[type |-> "pdf", title |-> <<"Relevant PDF excerpts">>, url |-> NoUrl,
             text |-> Join(topChunks, ExcerptSep)]>>
     ELSE <<>>

\* (the bracketed markers of the literal are fragments of their own)
SystemText == <<"You are an expert AI assistant. Answer succinctly and cite sources as ", "[1]", ", ", "[2]",
                ", etc when web context is provided. If unsure, state the uncertainty.">>

\* the entry numbered from 0, as the map callback's index is
NumberedEntry_ZeroBased(s, i) ==
  LET header == IF s.type = "web"
                THEN <<ToString(i - 1), ". ">> \o s.title \o
                     (IF s.url # NoUrl THEN <<" (">> \o s.url \o <<")">> ELSE <<>>)
                ELSE <<ToString(i - 1), ". ">> \o s.title
  IN header \o <<"\n">> \o Slice(s.text, 0, BodyCap)

\* `${i + 1}. ${s.title}...` then the body; i here is the 1-based position
NumberedEntry(s, i) ==
  LET header == IF s.type = "web"
                THEN <<ToString(i), ". ">> \o s.title \o
                     (IF s.url # NoUrl THEN <<" (">> \o s.url \o <<")">> ELSE <<>>)
                ELSE <<ToString(i), ". ">> \o s.title
  IN header \o <<"\n">> \o Slice(s.text, 0, BodyCap)

Numbered(ctx) == Join([i \in 1..Len(ctx) |-> NumberedEntry(ctx[i], i)], <<"\n\n">>)

BuildPrompt(ctx, c) ==
  IF Len(ctx) > 0
  THEN SystemText \o <<"\n\nContext Sources:\n">> \o Numbered(ctx)
       \o <<"\n\nUser question: ">> \o c
       \o <<"\n\nWrite the best answer. Include citations like ", "[n]",
            " next to claims that come from sources.">>
  ELSE SystemText \o <<"\n\nUser: ">> \o c \o <<"\nAssistant:">>

NotReadyReply == <<"AI not ready. Please wait for model to load.">>
ApologyReply == <<"Sorry, there was an error generating a response.">>

UserMsg(c) == [role |-> "user", content |-> c]
AssistantMsg(c) == [role |-> "assistant", content |-> c]

\* the append without the web filter
AddProvenance_All(prev, ctx) == prev \o ctx

\* if (ctxPieces.length > 0) setSources(prev => [...prev, ...web pieces])
AddProvenance(prev, ctx) ==
  IF Len(ctx) > 0 THEN prev \o SelectSeq(ctx, IsWeb) ELSE prev

NoFn == [op |-> "none"]

NoCall == [api |-> "none", messages |-> <<>>, prompt |-> <<>>]

Outcome(kind, ctx) ==
  [kind |-> kind, web |-> Len(SelectSeq(ctx, IsWeb)), excerpt |-> (SelectSeq(ctx, IsPdf) # <<>>)]

NoTurn == [content |-> <<>>, autoBrowse |-> FALSE, closMessages |-> <<>>, closSources |-> <<>>,
           search |-> "none", top |-> <<>>, reads |-> <<>>, pending |-> {},
           outOfOrder |-> FALSE, ctxPieces |-> <<>>, prompt |-> <<>>,
           call |-> NoCall]

\* the messages without the current user message
ChatMessages_NoUserMsg(closMsg, c, p) ==
  <<[role |-> "system", content |-> SystemText]>> \o closMsg \o <<UserMsg(p)>>

\* the messages handed to chat.completions.create
ChatMessages(closMsg, c, p) ==
  <<[role |-> "system", content |-> SystemText]>> \o closMsg
  \o <<UserMsg(c)>> \o <<UserMsg(p)>>

\* From the end of the aggregation to the first await of the try block, or to
\* the end of the handler when no engine is there to await.  t is the frame so
\* far, web the web sources gathered, msgs the history with the updates this
\* segment has already queued.
Infer(t, web, msgs) ==
  LET ctx == web \o PdfPieces(t.closSources, t.content)
      p == BuildPrompt(ctx, t.content)
  IN IF engine = "chat"
     THEN /\ turn' = [t EXCEPT !.ctxPieces = ctx, !.prompt = p,
                        !.call = [api |-> "chat", prompt |-> p,
                                  messages |-> ChatMessages(t.closMessages, t.content, p)]]
          /\ pc' = "Inferring"
          /\ status' = "Thinking..."
          /\ messages' = msgs
          /\ busy' = TRUE
          /\ UNCHANGED <<sources, outcome>>
     ELSE IF engine = "generate"
     THEN /\ turn' = [t EXCEPT !.ctxPieces = ctx, !.prompt = p,
                        !.call = [api |-> "generate", prompt |-> p, messages |-> <<>>]]
          /\ pc' = "Inferring"
          /\ status' = "Thinking..."
          /\ messages' = msgs
          /\ busy' = TRUE
          /\ UNCHANGED <<sources, outcome>>
     ELSE /\ turn' = NoTurn
          /\ pc' = "Idle"
          /\ status' = ""
          /\ messages' = Append(msgs, AssistantMsg(NotReadyReply))
          /\ sources' = AddProvenance(sources, ctx)
          /\ busy' = FALSE
          /\ outcome' = Outcome("notready", ctx)

\* ------------------------------------------------------------------ Init
PageInit ==
  /\ messages = <<>>
  /\ busy = FALSE
  /\ autoBrowse = TRUE
  /\ sources = <<>>
  /\ status = "Loading AI model (first time may take a minute)..."
  /\ engine = "none"
  /\ loadState = "loading"
  /\ pc = "Idle"
  /\ turn = NoTurn
  /\ outcome = Outcome("none", <<>>)
  /\ turns = 0
  /\ sendResult = "none"
  /\ uploads = <<>>
  /\ uploadCalls = 0
  /\ readsIssued = 0

Init == PageInit /\ fn = NoFn

\* --------------------------------------------------------------- actions
\* the effect that loads the model settles: engineRef.current is set
EngineLoaded ==
  /\ loadState = "loading"
  /\ \E shape \in {"chat", "generate"} : engine' = shape
  /\ loadState' = "ready"
  /\ status' = ""
  /\ UNCHANGED <<fn, messages, busy, autoBrowse, sources, pc, turn, outcome, turns,
                 sendResult, uploads, uploadCalls, readsIssued>>

EngineLoadFailed ==
  /\ loadState = "loading"
  /\ loadState' = "failed"
  /\ status' = "AI load failed. Try refresh or use smaller device."
  /\ UNCHANGED <<fn, messages, busy, autoBrowse, sources, engine, pc, turn, outcome,
                 turns, sendResult, uploads, uploadCalls, readsIssued>>

\* onChange of the Auto Browse checkbox
SetAutoBrowse ==
  /\ autoBrowse' = ~autoBrowse
  /\ UNCHANGED <<fn, messages, busy, sources, status, engine, loadState, pc, turn,
                 outcome, turns, sendResult, uploads, uploadCalls, readsIssued>>

\* handleSend returning at its guard
SendRejected ==
  /\ \E inp \in Inputs : ~SendAccepted(trim(inp), busy)
  /\ sendResult' = "rejected"
  /\ UNCHANGED <<fn, messages, busy, autoBrowse, sources, status, engine, loadState,
                 pc, turn, outcome, turns, uploads, uploadCalls, readsIssued>>

\* handleSend from its first line to its first await
SendStart ==
  /\ turns < MaxTurns
  /\ \E inp \in Inputs :
       LET t == [NoTurn EXCEPT !.content = trim(inp), !.autoBrowse = autoBrowse,
                               !.closMessages = messages,
                               !.closSources = sources]
           msgs == Append(messages, UserMsg(trim(inp)))
       IN /\ SendAccepted(trim(inp), busy)
          /\ IF autoBrowse
             THEN /\ turn' = [t EXCEPT !.search = "pending"]
                  /\ messages' = msgs
                  /\ busy' = TRUE
                  /\ status' = "Searching the web..."
                  /\ pc' = "Searching"
                  /\ UNCHANGED <<sources, outcome>>
             ELSE Infer(t, <<>>, msgs)
  /\ turns' = turns + 1
  /\ sendResult' = "started"
  /\ UNCHANGED <<fn, autoBrowse, engine, loadState, uploads, uploadCalls, readsIssued>>

\* the searchWeb call settles; handleSend runs on to its next await
SearchSettles ==
  /\ pc = "Searching"
  /\ \E resp \in SearchResponses :
       LET r == searchWeb(resp)
           tp == Slice(r.results, 0, TopN)
           t == [turn EXCEPT !.search = resp.kind, !.top = tp,
                             !.reads = [i \in 1..Len(tp) |-> Slot("pending")],
                             !.pending = 1..Len(tp)]
       IN /\ readsIssued + Len(tp) <= MaxReads
          /\ readsIssued' = readsIssued + Len(tp)
          /\ IF r.st = "rejected"
             THEN /\ pc' = "Dead"
                  /\ turn' = [turn EXCEPT !.search = resp.kind]
                  /\ UNCHANGED <<messages, busy, sources, status, outcome>>
             ELSE IF tp = <<>>
             THEN Infer(t, <<>>, messages)
             ELSE /\ pc' = "Fetching"
                  /\ turn' = t
                  /\ UNCHANGED <<messages, busy, sources, status, outcome>>
  /\ UNCHANGED <<fn, autoBrowse, engine, loadState, turns, sendResult, uploads,
                 uploadCalls>>

\* one fetchPage call settles; when that settles Promise.all, handleSend runs
\* on: a rejection rejects Promise.all at once, the last fulfilment resolves
\* it.  What the other reads do after a rejection is seen by nobody.
PageSettles ==
  /\ pc = "Fetching"
  /\ \E i \in turn.pending : \E resp \in PageResponses(turn.top[i].url) :
       LET v == PageSource(turn.top[i], resp)
           rds == PromiseAllStore(turn.reads, i, v)
           t == [turn EXCEPT !.reads = rds, !.pending = turn.pending \ {i},
                             !.outOfOrder = (turn.outOfOrder \/ \E j \in turn.pending : j < i)]
       IN IF v.st = "rejected"
          THEN /\ pc' = "Dead"
               /\ turn' = t
               /\ UNCHANGED <<messages, busy, sources, status, outcome>>
          ELSE IF turn.pending = {i}
          THEN Infer(t, FilterBoolean(rds), messages)
          ELSE /\ turn' = t
               /\ UNCHANGED <<messages, busy, sources, status, pc, outcome>>
  /\ UNCHANGED <<fn, autoBrowse, engine, loadState, turns, sendResult, uploads,
                 uploadCalls, readsIssued>>

\* the inference call settles; handleSend runs to its end
InferenceSettles ==
  /\ pc = "Inferring"
  /\ \E res \in InferenceResults :
       IF res.kind = "ok"
       THEN /\ messages' = Append(messages, AssistantMsg(res.text))
            /\ sources' = AddProvenance(sources, turn.ctxPieces)
            /\ outcome' = Outcome("success", turn.ctxPieces)
       ELSE /\ messages' = Append(messages, AssistantMsg(ApologyReply))
            /\ outcome' = Outcome("threw", turn.ctxPieces)
            /\ UNCHANGED sources
  /\ status' = ""
  /\ busy' = FALSE
  /\ pc' = "Idle"
  /\ turn' = NoTurn
  /\ UNCHANGED <<fn, autoBrowse, engine, loadState, turns, sendResult, uploads,
                 uploadCalls, readsIssued>>

\* handleUpload from its first line to its await; with no file it returns
UploadStart ==
  /\ uploadCalls < MaxUploads
  /\ uploadCalls' = uploadCalls + 1
  /\ \E n \in {0, 1} :
       IF n = 0
       THEN UNCHANGED <<status, uploads>>
       ELSE /\ status' = "Parsing PDF(s)..."
            /\ uploads' = Append(uploads, n)
  /\ UNCHANGED <<fn, messages, busy, autoBrowse, sources, engine, loadState, pc,
                 turn, outcome, turns, sendResult, readsIssued>>

\* the update with its operands swapped
AddUploads_Prepend(prev, pdfSources) == pdfSources \o prev

\* setSources(prev => [...prev, ...pdfSources])
AddUploads(prev, pdfSources) == prev \o pdfSources

RemoveAt(s, k) == SubSeq(s, 1, k - 1) \o SubSeq(s, k + 1, Len(s))

\* the parsePdf calls of one handleUpload have settled (Promise.all); the
\* handler runs to its end, or throws when one of them rejected
UploadSettles ==
  /\ \E k \in 1..Len(uploads) : \E resps \in [1..uploads[k] -> PdfResponses] :
       LET results == [i \in 1..uploads[k] |-> parsePdf(resps[i])]
           ok == SelectSeq(results, LAMBDA r : r.st = "value")
           pdfSources == [i \in 1..Len(ok) |->
                            [type |-> "pdf", title |-> ok[i].name, url |-> NoUrl,
                             text |-> ok[i].text]]
       IN /\ uploads' = RemoveAt(uploads, k)
          /\ IF \E i \in 1..Len(results) : results[i].st = "rejected"
             THEN UNCHANGED <<sources, status>>
             ELSE /\ sources' = AddUploads(sources, pdfSources)
                  /\ status' = ""
  /\ UNCHANGED <<fn, messages, busy, autoBrowse, engine, loadState, pc, turn,
                 outcome, turns, sendResult, uploadCalls, readsIssued>>

Next ==
  \/ EngineLoaded
  \/ EngineLoadFailed
  \/ SetAutoBrowse
  \/ SendRejected
  \/ SendStart
  \/ SearchSettles
  \/ PageSettles
  \/ InferenceSettles
  \/ UploadStart
  \/ UploadSettles

Spec == Init /\ [][Next]_vars

\* ------------------------------------------------- chunkText, step by step
\* String.prototype.slice(a, b) for any integers: a negative index counts
\* from the end
JsSlice(s, a, b) ==
  LET n == Len(s)
      from == IF a < 0 THEN (IF n + a < 0 THEN 0 ELSE n + a) ELSE Min(a, n)
      to == IF b < 0 THEN (IF n + b < 0 THEN 0 ELSE n + b) ELSE Min(b, n)
  IN SubSeq(s, from + 1, to)

\* the texts chunkText is run on: all their characters differ
ChunkTexts == {[i \in 1..n |-> ToString(i)] : n \in 0..MaxTextLen}

\* a loop test that lets the offset reach the end
LoopCond_Inclusive(i, text) == i <= Len(text)

\* while (i < text.length)
LoopCond(i, text) == i < Len(text)

\* an advance that forgets the overlap
NextOffset_NoOverlap(i, chunkSize, overlap) == i + chunkSize

\* i += chunkSize - overlap
NextOffset(i, chunkSize, overlap) == i + chunkSize - overlap

\* a call chunkText(text, chunkSize, overlap) with any chunkSize > 0 and any
\* overlap >= 0, the ones the contract excludes included
ChunkInit ==
  /\ PageInit
  /\ \E text \in ChunkTexts : \E chunkSize \in 1..MaxChunkSize :
       \E overlap \in 0..MaxChunkSize :
         fn = [op |-> "chunkText", text |-> text, chunkSize |-> chunkSize,
               overlap |-> overlap, i |-> 0, chunks |-> <<>>, pc |-> "loop"]

\* one round of the while loop
ChunkStep ==
  /\ fn.op = "chunkText" /\ fn.pc = "loop"
  /\ LoopCond(fn.i, fn.text)
  /\ Len(fn.chunks) < MaxChunks
  /\ fn' = [fn EXCEPT !.chunks = Append(fn.chunks, JsSlice(fn.text, fn.i, fn.i + fn.chunkSize)),
                      !.i = NextOffset(fn.i, fn.chunkSize, fn.overlap)]
  /\ UNCHANGED pageVars

\* the loop test fails: return chunks
ChunkReturn ==
  /\ fn.op = "chunkText" /\ fn.pc = "loop"
  /\ ~LoopCond(fn.i, fn.text)
  /\ fn' = [fn EXCEPT !.pc = "done"]
  /\ UNCHANGED pageVars

ChunkNext ==
  \/ ChunkStep
  \/ ChunkReturn

ChunkSpec == ChunkInit /\ [][ChunkNext]_vars

\* ----------------------------------------- rankChunksByQuery, step by step
RECURSIVE StringsUpTo(_)
StringsUpTo(n) ==
  IF n = 0 THEN {<<>>}
  ELSE LET shorter == StringsUpTo(n - 1)
       IN shorter \cup {Append(w, c) : w \in shorter, c \in {"a", "A"}}

\* the chunks rankChunksByQuery is run on
RankChunks == StringsUpTo(MaxRankLen)

RankChunkLists == UNION {[1..n -> RankChunks] : n \in 0..MaxRankChunks}

\* the queries: none or no term, one term, a repeated term, mixed case, a
\* term of two characters, a term no chunk holds
RankQueries == {<<>>, <<" ">>, <<"a">>, <<"A", " ", "a">>, <<"a", "-", "a", "a">>, <<"b">>}

RankInit ==
  /\ PageInit
  /\ \E chunks \in RankChunkLists : \E query \in RankQueries : \E k \in 0..MaxK :
       fn = [op |-> "rankChunksByQuery", chunks |-> chunks, query |-> query,
             k |-> k, scored |-> <<>>, result |-> <<>>, pc |-> "score"]

\* const terms = ...; const scored = chunks.map(...)
RankScore ==
  /\ fn.op = "rankChunksByQuery" /\ fn.pc = "score"
  /\ fn' = [fn EXCEPT !.pc = "sort",
                      !.scored = [idx \in 1..Len(fn.chunks) |->
                                    [idx |-> idx, score |-> ChunkScore(fn.chunks[idx], fn.query)]]]
  /\ UNCHANGED pageVars

\* scored.sort((a, b) => b.score - a.score)
RankSort ==
  /\ fn.op = "rankChunksByQuery" /\ fn.pc = "sort"
  /\ fn' = [fn EXCEPT !.pc = "take", !.scored = SortDesc(fn.scored)]
  /\ UNCHANGED pageVars

\* return scored.slice(0, k).map(s => chunks[s.idx])
RankReturn ==
  /\ fn.op = "rankChunksByQuery" /\ fn.pc = "take"
  /\ LET best == Slice(fn.scored, 0, fn.k)
     IN fn' = [fn EXCEPT !.pc = "done",
                         !.result = [j \in 1..Len(best) |-> fn.chunks[best[j].idx]]]
  /\ UNCHANGED pageVars

RankNext ==
  \/ RankScore
  \/ RankSort
  \/ RankReturn

RankSpec == RankInit /\ [][RankNext]_vars

\* ----------------------------------------------------------- properties
Running == pc \in {"Searching", "Fetching", "Inferring"}

IsPrefix(a, b) == Len(a) <= Len(b) /\ SubSeq(b, 1, Len(a)) = a

Assistants(msgs) == SelectSeq(msgs, LAMBDA m : m.role = "assistant")

\* the position of a URL in the search provider's results
ResultIndex(url) == CHOOSE k \in 1..MaxResults : AllResults[k].url = url

WebOf(ctx) == SelectSeq(ctx, LAMBDA x : x.type = "web")

\* C1: while the busy flag is set no turn starts, and a handleSend call that
\* is made then returns without appending a message, without touching the
\* running turn or its calls, and leaves nothing behind that starts a turn later.
C1_BusyRejectsSend ==
  [][busy =>
       /\ turns' = turns
       /\ (sendResult' = "rejected" /\ sendResult # "rejected")
            => UNCHANGED <<messages, sources, busy, pc, turn, readsIssued, uploads>>]_vars

C1_Witness == busy /\ Running /\ sendResult = "rejected"

\* C2: once handleSend has nothing left to run (it returned or threw), the
\* busy flag is cleared and every turn started has its one assistant message.
C2_TurnReturnsToIdle ==
  pc \in {"Idle", "Dead"} => (~busy /\ Len(Assistants(messages)) = turns)

\* C3: a failed search call (rejected, unreadable or non-OK) leaves the turn
\* alive with no search result and no page read.
C3_SearchFailureTolerated ==
  turn.search \in {"neterr", "badjson", "notok"}
    => (pc # "Dead" /\ turn.top = <<>> /\ turn.reads = <<>>)

\* C4: the turn leaves the page-read join only when every page read has
\* settled, and a page read that failed, in whatever way, does not abort it.
C4_AllSettledJoin ==
  /\ pc # "Fetching" => turn.pending = {}
  /\ (\E i \in 1..Len(turn.reads) : turn.reads[i].st = "rejected") => pc # "Dead"

\* C5: every web source of a turn carries usable (non-empty) text: a page
\* read that failed or came back with empty text contributes no source.
C5_WebSourcesHaveText ==
  pc = "Inferring" => \A i \in 1..Len(turn.ctxPieces) :
                        turn.ctxPieces[i].type = "web" => turn.ctxPieces[i].text # <<>>

\* C6: the web sources of a turn are the sources of the page reads that gave
\* one, in the order of the search results, whatever order the reads settled in.
C6_WebSourcesInSearchOrder ==
  pc = "Inferring" =>
    LET web == WebOf(turn.ctxPieces)
    IN /\ \A a, b \in 1..Len(web) :
            a < b => ResultIndex(web[a].url) < ResultIndex(web[b].url)
       /\ \A a \in 1..Len(web) :
            /\ ResultIndex(web[a].url) \in 1..Len(turn.top)
            /\ turn.reads[ResultIndex(web[a].url)].st = "source"
       /\ Len(web) = Cardinality({i \in 1..Len(turn.reads) : turn.reads[i].st = "source"})

C6_Witness ==
  pc = "Inferring" /\ turn.outOfOrder /\ Len(WebOf(turn.ctxPieces)) >= 2

\* C7: a turn whose inference threw or was not available ends with the fixed
\* apology or placeholder as its assistant message and with the provenance
\* list as it was.
C7_FailureKeepsProvenance ==
  [][(Len(messages') > Len(messages) /\ outcome'.kind \in {"threw", "notready"}
      /\ messages'[Len(messages')].role = "assistant")
       => /\ messages'[Len(messages')].content \in {ApologyReply, NotReadyReply}
          /\ sources' = sources]_vars

\* C8: a turn whose inference succeeded appends to the provenance list its
\* web sources, in per-turn order, and nothing else; the PDF excerpt source
\* is never appended.
C8_SuccessAppendsWebSources ==
  [][(pc = "Inferring" /\ pc' = "Idle" /\ outcome'.kind = "success")
       => /\ sources' = sources \o WebOf(turn.ctxPieces)
          /\ \A k \in (Len(sources) + 1)..Len(sources') : sources'[k].type = "web"]_vars

C8_Witness ==
  /\ pc = "Idle" /\ outcome.kind = "success" /\ outcome.web >= 2 /\ outcome.excerpt
  /\ Len(WebOf(sources)) >= 2

\* C9: while a turn is running, the history and the provenance list change
\* only in the step that ends the turn.
C9_NoChangeDuringTurn ==
  [][Running => /\ (messages' # messages => pc' = "Idle")
                /\ (sources' # sources => pc' = "Idle")]_vars

\* C10: in every step the history and the provenance list before the step
\* are prefixes of the lists after it.
C10_AppendOnly ==
  [][IsPrefix(messages, messages') /\ IsPrefix(sources, sources')]_vars

C10_Witness ==
  /\ Len(messages) >= 3
  /\ \E i, j \in 1..Len(sources) : i < j /\ sources[i].type = "pdf" /\ sources[j].type = "web"

\* the positions of the prompt at which an entry number stands: the fragment
\* before each ". "
HeaderPositions(p) == {k \in 1..(Len(p) - 1) : p[k + 1] = ". "}

\* C11: the context block of a turn with n per-turn sources has n numbered
\* entries; the i-th of them in the prompt carries the number i and the title
\* of the i-th per-turn source.
C11_CitationIndicesContiguous ==
  (pc = "Inferring" /\ turn.ctxPieces # <<>>) =>
    LET p == turn.prompt
        pos == HeaderPositions(p)
        n == Len(turn.ctxPieces)
    IN /\ Cardinality(pos) = n
       /\ \A i \in 1..n :
            \E k \in pos :
              /\ Cardinality({m \in pos : m < k}) = i - 1
              /\ p[k] = ToString(i)
              /\ SubSeq(p, k + 2, k + 1 + Len(turn.ctxPieces[i].title)) = turn.ctxPieces[i].title

C11_Witness ==
  /\ pc = "Inferring"
  /\ Len(turn.ctxPieces) = 3
  /\ turn.ctxPieces[3].type = "pdf"
  /\ \E i \in 1..Len(turn.reads) : turn.reads[i].st = "null"

\* ---------------------------------------------------- chunkText properties
ValidChunkArgs == fn.chunkSize > 0 /\ 0 <= fn.overlap /\ fn.overlap < fn.chunkSize

ChunkDone == fn.op = "chunkText" /\ fn.pc = "done"

\* ceil(a / b) for b > 0
CeilDiv(a, b) == -((-a) \div b)

\* C12: called with overlap >= chunkSize on a non-empty text the segmenter
\* emits no chunk (it fails at once), and no run emits more chunks than the
\* text has characters (so every run ends).
C12_SegmenterStops ==
  fn.op = "chunkText" =>
    /\ (fn.overlap >= fn.chunkSize /\ fn.text # <<>>) => fn.chunks = <<>>
    /\ Len(fn.chunks) <= Len(fn.text)

\* C13 as claimed: a finished run on a non-empty text has
\* ceil((len - overlap) / (chunkSize - overlap)) chunks, on the empty text none.
C13_ChunkCountAsClaimed ==
  (ChunkDone /\ ValidChunkArgs) =>
    IF fn.text = <<>> THEN fn.chunks = <<>>
    ELSE Len(fn.chunks) = CeilDiv(Len(fn.text) - fn.overlap, fn.chunkSize - fn.overlap)

\* C13 as amended: a finished run has ceil(len / (chunkSize - overlap)) chunks,
\* on the empty text none.
C13_ChunkCount ==
  (ChunkDone /\ ValidChunkArgs) =>
    /\ Len(fn.chunks) = CeilDiv(Len(fn.text), fn.chunkSize - fn.overlap)
    /\ fn.text = <<>> => fn.chunks = <<>>

C13_Witness ==
  /\ ChunkDone /\ ValidChunkArgs /\ fn.overlap > 0 /\ Len(fn.chunks) >= 3
  /\ Len(fn.chunks) # CeilDiv(Len(fn.text) - fn.overlap, fn.chunkSize - fn.overlap)

\* the first n characters of every chunk but the last, then the last chunk
RECURSIVE Reconstruct(_, _)
Reconstruct(chunks, n) ==
  IF chunks = <<>> THEN <<>>
  ELSE IF Len(chunks) = 1 THEN chunks[1]
  ELSE SubSeq(chunks[1], 1, n) \o Reconstruct(Tail(chunks), n)

\* C14: chunk j (from 0) of a finished run is the text from j*(chunkSize-overlap)
\* to at most chunkSize characters further, and the non-overlapping prefixes
\* of the chunks followed by the last chunk give back the text.
C14_ChunksCoverText ==
  (ChunkDone /\ ValidChunkArgs) =>
    LET step == fn.chunkSize - fn.overlap
    IN /\ \A j \in 0..(Len(fn.chunks) - 1) :
            fn.chunks[j + 1] = SubSeq(fn.text, j * step + 1,
                                      Min(j * step + fn.chunkSize, Len(fn.text)))
       /\ Reconstruct(fn.chunks, step) = fn.text

C14_Witness ==
  /\ ChunkDone /\ ValidChunkArgs /\ fn.overlap > 0 /\ Len(fn.chunks) >= 3
  /\ Len(fn.chunks[Len(fn.chunks)]) < fn.chunkSize

\* ------------------------------------------- rankChunksByQuery properties
\* the positions at which t occurs in lc
Occurrences(lc, t) ==
  {p \in 1..(Len(lc) - Len(t) + 1) : SubSeq(lc, p, p + Len(t) - 1) = t}

\* the most occurrences of t in lc that can be taken without two overlapping
DisjointOccurrences(lc, t) ==
  LET sets == {S \in SUBSET Occurrences(lc, t) :
                 \A p, q \in S : p # q => (p - q >= Len(t) \/ q - p >= Len(t))}
  IN CHOOSE n \in 0..Len(lc) :
       /\ \E S \in sets : Cardinality(S) = n
       /\ \A S \in sets : Cardinality(S) <= n

RECURSIVE SumOverTerms(_, _, _)
SumOverTerms(Count(_, _), lc, terms) ==
  IF terms = <<>> THEN 0
  ELSE Count(lc, Head(terms)) + SumOverTerms(Count, lc, Tail(terms))

AllPositions(lc, t) == Cardinality(Occurrences(lc, t))

Scored == fn.op = "rankChunksByQuery" /\ fn.pc # "score"

\* C15 as claimed: the score of a chunk is the sum, over the query's terms with
\* repetition, of the number of positions at which the term occurs in the
\* lower-cased chunk (overlapping occurrences included); no term gives 0, and
\* no score is negative.
C15_ScoreAsClaimed ==
  Scored => \A n \in 1..Len(fn.scored) :
              LET e == fn.scored[n]
              IN /\ e.score = SumOverTerms(AllPositions, toLowerCase(fn.chunks[e.idx]),
                                           QueryTerms(fn.query))
                 /\ e.score >= 0
                 /\ QueryTerms(fn.query) = <<>> => e.score = 0

\* C15 as amended: the occurrences of a term are counted without overlap (the
\* most occurrences that do not overlap one another, which is what a scan
\* from the left that resumes after each match finds).
C15_Score ==
  Scored => \A n \in 1..Len(fn.scored) :
              LET e == fn.scored[n]
              IN /\ e.score = SumOverTerms(DisjointOccurrences, toLowerCase(fn.chunks[e.idx]),
                                           QueryTerms(fn.query))
                 /\ e.score >= 0
                 /\ QueryTerms(fn.query) = <<>> => e.score = 0

C15_Witness ==
  /\ Scored
  /\ Len(QueryTerms(fn.query)) = 2
  /\ \E n \in 1..Len(fn.scored) :
       /\ fn.scored[n].score >= 2
       /\ fn.chunks[fn.scored[n].idx] # toLowerCase(fn.chunks[fn.scored[n].idx])
       /\ fn.scored[n].score # SumOverTerms(AllPositions, toLowerCase(fn.chunks[fn.scored[n].idx]),
                                            QueryTerms(fn.query))

RankDone == fn.op = "rankChunksByQuery" /\ fn.pc = "done"

\* C16: the ranker returns min(k, number of chunks) chunks: the first ones of
\* the chunks put in non-increasing score order, equal scores in input order.
C16_RankerTopK ==
  RankDone =>
    LET n == Len(fn.chunks)
        score(idx) == ChunkScore(fn.chunks[idx], fn.query)
    IN /\ Len(fn.result) = Min(fn.k, n)
       /\ Len(fn.scored) = n
       /\ {fn.scored[a].idx : a \in 1..n} = 1..n
       /\ \A a, b \in 1..n :
            a < b => \/ score(fn.scored[a].idx) > score(fn.scored[b].idx)
                     \/ /\ score(fn.scored[a].idx) = score(fn.scored[b].idx)
                        /\ fn.scored[a].idx < fn.scored[b].idx
       /\ \A j \in 1..Len(fn.result) : fn.result[j] = fn.chunks[fn.scored[j].idx]
       /\ (\A idx \in 1..n : score(idx) = 0)
            => fn.result = SubSeq(fn.chunks, 1, Min(fn.k, n))

C16_Witness ==
  /\ RankDone /\ Len(fn.chunks) = 2 /\ fn.k = 2
  /\ fn.chunks[1] # fn.chunks[2]
  /\ ChunkScore(fn.chunks[1], fn.query) = ChunkScore(fn.chunks[2], fn.query)
  /\ ChunkScore(fn.chunks[1], fn.query) > 0
  /\ fn.result = fn.chunks

\* ------------------------------------------------ more page properties
CitationMarkers == {"[n]", "[1]", "[2]", "[3]", "[4]"}

\* C17: with no per-turn source the prompt handed to inference holds the
\* system instruction and the query and no citation marker.
C17_EmptyPromptHasNoMarker ==
  (pc = "Inferring" /\ turn.ctxPieces = <<>>) =>
    /\ SubSeq(turn.prompt, 1, Len(SystemText)) = SystemText
    /\ \E k \in 1..Len(turn.prompt) :
         SubSeq(turn.prompt, k, k + Len(turn.content) - 1) = turn.content
    /\ \A k \in 1..Len(turn.prompt) : turn.prompt[k] \notin CitationMarkers

SystemMsg == [role |-> "system", content |-> SystemText]

\* C18 as claimed: the inference call of a turn carries the system message,
\* then the history (the current user message is its last entry), then the
\* prompt as a user message: len(history) + 2 messages.
C18_CallMessagesAsClaimed ==
  pc = "Inferring" =>
    /\ Len(turn.call.messages) = Len(messages) + 2
    /\ turn.call.messages = <<SystemMsg>> \o messages \o <<[role |-> "user", content |-> turn.prompt]>>

\* C18 as amended: that holds of every call of the chat-completions
\* interface; an engine that only has generate is handed the prompt alone.
C18_CallMessages ==
  pc = "Inferring" =>
    IF turn.call.api = "chat"
    THEN /\ Len(turn.call.messages) = Len(messages) + 2
         /\ turn.call.messages = <<SystemMsg>> \o messages \o <<[role |-> "user", content |-> turn.prompt]>>
    ELSE /\ turn.call.api = "generate"
         /\ turn.call.messages = <<>>
         /\ turn.call.prompt = turn.prompt

C18_Witness ==
  pc = "Inferring" /\ turn.call.api = "chat" /\ Len(messages) = 3

PdfOf(ctx) == SelectSeq(ctx, LAMBDA x : x.type = "pdf")

\* C19: the per-turn sources are at most 3 web sources and then at most one
\* PDF excerpt source, which is there exactly when the sources held when the
\* turn started include a PDF; a turn started with autoBrowse off issues no
\* search and no page read and has no web source.
C19_PerTurnSourcesShape ==
  /\ pc \in {"Searching", "Fetching"} => turn.autoBrowse
  /\ pc = "Inferring" =>
       LET web == WebOf(turn.ctxPieces)
           pdf == PdfOf(turn.ctxPieces)
       IN /\ Len(web) <= 3
          /\ Len(pdf) <= 1
          /\ turn.ctxPieces = web \o pdf
          /\ (Len(pdf) = 1) <=> (\E i \in 1..Len(turn.closSources) : turn.closSources[i].type = "pdf")
          /\ ~turn.autoBrowse =>
               (turn.search = "none" /\ turn.top = <<>> /\ turn.reads = <<>> /\ web = <<>>)

C19_Witness ==
  pc = "Inferring" /\ Len(WebOf(turn.ctxPieces)) = 3 /\ Len(PdfOf(turn.ctxPieces)) = 1

\* C20: whenever the busy flag is clear the history alternates user,
\* assistant from its first entry and has two entries per turn started.
C20_HistoryAlternates ==
  ~busy =>
    /\ Len(messages) = 2 * turns
    /\ \A i \in 1..Len(messages) :
         messages[i].role = (IF i % 2 = 1 THEN "user" ELSE "assistant")

C20_Witness ==
  ~busy /\ turns = 2 /\ Len(messages) = 4 /\ sendResult = "rejected"

====
